---- MODULE Spec2Model ----
(***************************************************************************)
(* Model of cli/pull.go: renderOutput reads a JSON stream framed as an     *)
(* array of batches through an encoding/json Decoder, hands every batch to *)
(* display, which writes one line per event and a summary line into a      *)
(* tabwriter, and flushes the tabwriter and the progress writer after every *)
(* batch.                                                                  *)
(*                                                                         *)
(* The input is a sequence of tokens: the delimiters [ ] { } and whole     *)
(* top-level values (a batch, null, a value that is no array, malformed    *)
(* text).  Commas between well-formed elements are implicit; a missing or  *)
(* stray comma is malformed text.  Strings that are formatted (the         *)
(* errorMessage) are sequences of characters.  Offset and Total are int64  *)
(* byte counts, counted here in units of 2^60 bytes: the int64 range is    *)
(* -8..7 units and addition wraps around at 8 units (2^63 bytes).          *)
(* runPull wraps renderOutput: it obtains the response body and closes it  *)
(* by a deferred call when it returns.                                     *)
(***************************************************************************)
EXTENDS Integers, Sequences, FiniteSets, TLC

VARIABLES input, pos, tokenState, pc, objs, idx, total, tw, fw, sink, err,
          start, now, calls, run

vars == <<input, pos, tokenState, pc, objs, idx, total, tw, fw, sink, err,
          start, now, calls, run>>

\* ---------------------------------------------------------------- bounds
MaxTokens  == 3   \* length of a stream of the framing family
MaxBatches == 2   \* batches of a stream of the multi-batch family
MaxEvents  == 2   \* events of one batch
MaxMsgLen  == 2   \* characters of an errorMessage
MaxClock   == 2   \* clock readings after start

\* ------------------------------------------------------------ data model
SeqUpTo(S, n) == UNION {[1..k -> S] : k \in 0..n}

\* the delimiter and value tokens of the stream
LB == [kind |-> "["]
RB == [kind |-> "]"]
LC == [kind |-> "{"]
RC == [kind |-> "}"]
NullTok == [kind |-> "null"]
ScalarTok == [kind |-> "scalar"]
GarbageTok == [kind |-> "garbage"]
BatchTok(b) == [kind |-> "batch", events |-> b]

\* ctrd.ProgressInfo
ProgressInfo(ref, status, offset, tot, msg) ==
  [Ref |-> ref, Status |-> status, Offset |-> offset, Total |-> tot,
   ErrorMessage |-> msg]

Msgs == SeqUpTo({"x", "%"}, MaxMsgLen) \ {<<>>}

OkEvents ==
  {ProgressInfo(r, s, o, t, <<>>) :
     r \in {"a", "b"}, s \in {"downloading", "done"}, o \in {3}, t \in {2}}

ErrEvents == {ProgressInfo("a", "downloading", 3, 2, m) : m \in Msgs}

MidEvents ==
  [A |-> ProgressInfo("a", "downloading", 3, 2, <<>>),
   B |-> ProgressInfo("b", "done", 1, 0, <<>>),
   E |-> ProgressInfo("a", "waiting", 3, 2, <<"x">>)]

\* the batches of the streams of several batches
MidBatches ==
  {<<>>, <<MidEvents.A>>, <<MidEvents.B, MidEvents.A>>,
   <<MidEvents.A, MidEvents.E>>, <<MidEvents.E>>}

FramingTokens ==
  {LB, RB, LC, RC, NullTok, ScalarTok, GarbageTok,
   BatchTok(<<ProgressInfo("a", "downloading", 3, 2, <<>>)>>),
   BatchTok(<<ProgressInfo("a", "done", 3, 2, <<"x">>)>>)}

\* A stream never starts with a batch token: its first character is the
\* token [ and what follows are event records, that is, non-array values.
FramingStreams == {s \in SeqUpTo(FramingTokens, MaxTokens) :
                     s = <<>> \/ s[1].kind # "batch"}

\* events of every status, with offsets below, within and above the total
RichEvents ==
  {ProgressInfo(r, s, o, t, m) :
     r \in {"a", "b"},
     s \in {"downloading", "uploading", "resolving", "waiting", "done", "", "bogus"},
     o \in {-1, 0, 1, 3}, t \in {0, 2}, m \in {<<>>, <<"x">>}}

\* events whose offsets add up beyond the int64 range
HugeEvents ==
  {ProgressInfo("a", s, o, 0, <<>>) : s \in {"downloading", "done"}, o \in {1, 7}}

Framed(bs) == <<LB>> \o [i \in 1..Len(bs) |-> BatchTok(bs[i])] \o <<RB>>

BatchStreams == {Framed(<<b>>) : b \in SeqUpTo(OkEvents \cup ErrEvents, MaxEvents)}

MultiStreams == {Framed(bs) : bs \in SeqUpTo(MidBatches, MaxBatches)}

SingleStreams == {Framed(<<<<e>>>>) : e \in RichEvents}

HugeStreams == {Framed(<<b>>) : b \in SeqUpTo(HugeEvents, MaxEvents)}

Streams == FramingStreams \cup BatchStreams \cup MultiStreams
             \cup SingleStreams \cup HugeStreams

NoErr == [kind |-> "nil", msg |-> <<>>]

\* --------------------------------------------- encoding/json.Decoder
EOF == [kind |-> "eof"]

\* dec.peek(): the next token of the stream, or the end of the stream
Peek(in, p) == IF p <= Len(in) THEN in[p] ELSE EOF

\* Decoder.tokenValueAllowed
TokenValueAllowed(st) == st \in {"top", "arrayStart", "arrayValue"}

\* Decoder.Token() returns a token and no error
TokenOk(st, c) ==
  CASE c.kind \in {"[", "{"} -> TokenValueAllowed(st)
    [] c.kind = "]" -> st \in {"arrayStart", "arrayComma"}
    [] c.kind = "}" -> st \in {"objectStart", "objectComma"}
    [] c.kind \in {"null", "scalar", "batch"} -> TokenValueAllowed(st)
    [] OTHER -> FALSE

\* the decoder's token state after a successful Token()
TokenNext(st, c) ==
  CASE c.kind = "[" -> "arrayStart"
    [] c.kind = "{" -> "objectStart"
    [] OTHER -> "top"

\* Decoder.More(): an element follows
More(c) == c.kind \notin {"eof", "]", "}"}

\* Decoder.Decode(&objs) returns no error: a value is allowed here and
\* the value unmarshals into []ctrd.ProgressInfo (an array of records,
\* or null)
DecodeOk(st, c) == st # "objectStart" /\ c.kind \in {"batch", "null"}

\* the slice Decode stores into objs
Decoded(c) == IF c.kind = "batch" THEN c.events ELSE <<>>

\* Decoder.tokenValueEnd after a decoded value
TokenValueEnd(st) == IF st \in {"arrayStart", "arrayComma"} THEN "arrayComma" ELSE st

\* ------------------------------------------------------------- fmt
\* fmt.Sprintf(format) with no operands: a verb has no operand to print
RECURSIVE Sprintf(_)
Sprintf(f) ==
  IF f = <<>> THEN <<>>
  ELSE IF f[1] # "%" THEN <<f[1]>> \o Sprintf(Tail(f))
  ELSE IF Len(f) = 1 THEN <<"%!(NOVERB)">>
  ELSE IF f[2] = "%" THEN <<"%">> \o Sprintf(Tail(Tail(f)))
  ELSE <<"%!", f[2], "(MISSING)">> \o Sprintf(Tail(Tail(f)))

\* fmt.Errorf(status.ErrorMessage)
TaskError(status) == [kind |-> "task", msg |-> Sprintf(status.ErrorMessage)]

OpeningError == [kind |-> "opening", msg |-> <<"failed to read the opening token: ">>]
DecodeError == [kind |-> "decode", msg |-> <<"failed to decode: ">>]
ClosingError == [kind |-> "closing", msg |-> <<"failed to read the closing token: ">>]

\* ------------------------------------------------------------- display
\* variant: the errorMessage of an event is not looked at
HasErrorNever(status) == FALSE

\* status.ErrorMessage != ""
HasError(status) == status.ErrorMessage # <<>>

\* variant: a waiting task is drawn like a finished one
RatioWaitingFull(status) ==
  CASE status.Status \in {"downloading", "uploading"} ->
         IF status.Total > 0 THEN <<status.Offset, status.Total>> ELSE <<0, 1>>
    [] status.Status = "resolving" -> <<0, 1>>
    [] OTHER -> <<1, 1>>

\* variant: the offset is not divided by the total
RatioOfOffsetAlone(status) ==
  CASE status.Status \in {"downloading", "uploading"} ->
         IF status.Total > 0 THEN <<status.Offset, 1>> ELSE <<0, 1>>
    [] status.Status \in {"resolving", "waiting"} -> <<0, 1>>
    [] OTHER -> <<1, 1>>

\* the ratio handed to progress.Bar, as numerator and denominator
Ratio(status) ==
  CASE status.Status \in {"downloading", "uploading"} ->
         IF status.Total > 0 THEN <<status.Offset, status.Total>> ELSE <<0, 1>>
    [] status.Status \in {"resolving", "waiting"} -> <<0, 1>>
    [] OTHER -> <<1, 1>>

\* width of the bar in the format verb %40r
BarWidth == 40

\* progress.Bar.Format: the ratio is clamped to [0,1], the bar has
\* BarWidth - 2 cells between its end marks, int(cells * ratio) are filled
BarFill(r) ==
  LET cells == BarWidth - 2
      h == IF r[1] > r[2] THEN <<1, 1>> ELSE IF r[1] < 0 THEN <<0, 1>> ELSE r
  IN (cells * h[1]) \div h[2]

\* int64 addition, in units of 2^60 bytes
AddInt64(a, b) == ((a + b + 8) % 16) - 8

\* the line display writes for one event
EventLine(status) ==
  [kind |-> "event", ref |-> status.Ref, status |-> status.Status,
   bar |-> Ratio(status), fill |-> BarFill(Ratio(status)),
   size |-> IF status.Status \in {"downloading", "uploading"}
            THEN <<status.Offset, status.Total>> ELSE <<>>]

\* progress.NewBytesPerSecond(n, d): BytesPerSecond(float64(n) / d.Seconds()).
\* For d = 0 the quotient is an infinity or NaN, and what its conversion to
\* an integer rate yields depends on the platform: the results a build can
\* produce are the smallest int64, the largest int64 and 0.
BytesPerSecond(n, d) ==
  IF d # 0 THEN {[kind |-> "finite", num |-> n, den |-> d]}
  ELSE {[kind |-> k, num |-> n, den |-> 0] : k \in {"MinInt64", "MaxInt64", "Zero"}}

\* the summary line: elapsed, total and rate
SummaryLine(elapsed, n, rate) ==
  [kind |-> "summary", elapsed |-> elapsed, total |-> n, rate |-> rate]

\* ------------------------------------------------------------- state
Init ==
  /\ input \in Streams
  /\ pos = 1
  /\ tokenState = "top"
  /\ pc = "start"
  /\ objs = <<>>
  /\ idx = 0
  /\ total = 0
  /\ tw = <<>>
  /\ fw = [buf |-> <<>>, lines |-> 0]
  /\ sink = <<>>
  /\ err = NoErr
  /\ start = 0
  /\ now = 0
  /\ calls = [token |-> 0, decode |-> 0, display |-> 0, flush |-> 0]
  /\ run = [pc |-> "entry", body |-> "none", closes |-> 0, ret |-> NoErr]

\* runPull, lines 52-64: parse the reference and pull the image; either
\* can fail, otherwise the response body is handed to renderOutput
RunPull ==
  /\ run.pc = "entry"
  /\ \E outcome \in {"parse", "pull", "ok"} :
       run' = IF outcome = "ok"
              THEN [run EXCEPT !.pc = "render", !.body = "open"]
              ELSE [run EXCEPT !.pc = "exit",
                               !.ret = [kind |-> outcome,
                                        msg |-> <<"failed to pull image: ">>]]
  /\ UNCHANGED <<input, pos, tokenState, pc, objs, idx, total, tw, fw, sink,
                 err, start, now, calls>>

\* variant: the body is closed on the success path only
RunPullReturnCloseOnSuccess ==
  /\ run.pc = "render"
  /\ pc = "done"
  /\ run' = IF err = NoErr
            THEN [pc |-> "exit", body |-> "closed", closes |-> run.closes + 1,
                  ret |-> err]
            ELSE [run EXCEPT !.pc = "exit", !.ret = err]
  /\ UNCHANGED <<input, pos, tokenState, pc, objs, idx, total, tw, fw, sink,
                 err, start, now, calls>>

\* runPull, lines 62-64: renderOutput has returned; the deferred
\* responseBody.Close() runs and runPull returns renderOutput's result
RunPullReturn ==
  /\ run.pc = "render"
  /\ pc = "done"
  /\ run' = [pc |-> "exit", body |-> "closed", closes |-> run.closes + 1,
             ret |-> err]
  /\ UNCHANGED <<input, pos, tokenState, pc, objs, idx, total, tw, fw, sink,
                 err, start, now, calls>>

\* variant: the error is recorded but the loop goes on
ReturnAndContinue(e) == /\ err' = e
                        /\ pc' = "more"

\* an error return of renderOutput or display
Return(e) == /\ err' = e
             /\ pc' = "done"

\* renderOutput, lines 69-77: take the start time, create the progress
\* writer and the decoder, read the opening token
OpenToken ==
  /\ run.pc = "render"
  /\ pc = "start"
  /\ start' = now
  /\ fw' = [buf |-> <<>>, lines |-> 0]
  /\ calls' = [calls EXCEPT !.token = @ + 1]
  /\ IF TokenOk(tokenState, Peek(input, pos))
     THEN /\ pos' = pos + 1
          /\ tokenState' = TokenNext(tokenState, Peek(input, pos))
          /\ pc' = "more"
          /\ err' = err
     ELSE /\ Return(OpeningError)
          /\ UNCHANGED <<pos, tokenState>>
  /\ UNCHANGED <<input, objs, idx, total, tw, sink, now>>
  /\ UNCHANGED run

\* variant: the loop body does not read from the decoder
LoopTestSpin ==
  /\ pc = "more"
  /\ pc' = IF More(Peek(input, pos)) THEN "more" ELSE "close"
  /\ UNCHANGED <<input, pos, tokenState, objs, idx, total, tw, fw, sink, err,
                 start, now, calls>>
  /\ UNCHANGED run

\* variant: the loop body runs before the first test of dec.More()
LoopTestDoWhile ==
  /\ pc = "more"
  /\ pc' = IF More(Peek(input, pos)) \/ calls.decode = 0 THEN "decode" ELSE "close"
  /\ UNCHANGED <<input, pos, tokenState, objs, idx, total, tw, fw, sink, err,
                 start, now, calls>>
  /\ UNCHANGED run

\* renderOutput, line 79: the loop condition dec.More()
LoopTest ==
  /\ pc = "more"
  /\ pc' = IF More(Peek(input, pos)) THEN "decode" ELSE "close"
  /\ UNCHANGED <<input, pos, tokenState, objs, idx, total, tw, fw, sink, err,
                 start, now, calls>>
  /\ UNCHANGED run

\* variant: the start time is taken again for every batch
DecodeBatchRestartClock ==
  /\ pc = "decode"
  /\ tw' = <<>>
  /\ start' = now
  /\ IF DecodeOk(tokenState, Peek(input, pos))
     THEN /\ objs' = Decoded(Peek(input, pos))
          /\ pos' = pos + 1
          /\ tokenState' = TokenValueEnd(tokenState)
          /\ pc' = "display"
          /\ idx' = 1
          /\ total' = 0
          /\ err' = err
          /\ calls' = [calls EXCEPT !.decode = @ + 1, !.display = @ + 1]
     ELSE /\ Return(DecodeError)
          /\ calls' = [calls EXCEPT !.decode = @ + 1]
          /\ UNCHANGED <<objs, pos, tokenState, idx, total>>
  /\ UNCHANGED <<input, fw, sink, now>>
  /\ UNCHANGED run

\* variant: the accumulator is declared outside the loop over the batches
DecodeBatchKeepTotal ==
  /\ pc = "decode"
  /\ tw' = <<>>
  /\ IF DecodeOk(tokenState, Peek(input, pos))
     THEN /\ objs' = Decoded(Peek(input, pos))
          /\ pos' = pos + 1
          /\ tokenState' = TokenValueEnd(tokenState)
          /\ pc' = "display"
          /\ idx' = 1
          /\ total' = total
          /\ err' = err
          /\ calls' = [calls EXCEPT !.decode = @ + 1, !.display = @ + 1]
     ELSE /\ Return(DecodeError)
          /\ calls' = [calls EXCEPT !.decode = @ + 1]
          /\ UNCHANGED <<objs, pos, tokenState, idx, total>>
  /\ UNCHANGED <<input, fw, sink, start, now>>
  /\ UNCHANGED run

\* variant: the error of dec.Decode is dropped and display runs on what
\* was decoded
DecodeBatchIgnoreError ==
  /\ pc = "decode"
  /\ tw' = <<>>
  /\ objs' = Decoded(Peek(input, pos))
  /\ pos' = pos + 1
  /\ tokenState' = TokenValueEnd(tokenState)
  /\ pc' = "display"
  /\ idx' = 1
  /\ total' = 0
  /\ err' = err
  /\ calls' = [calls EXCEPT !.decode = @ + 1, !.display = @ + 1]
  /\ UNCHANGED <<input, fw, sink, start, now>>
  /\ UNCHANGED run

\* renderOutput, lines 80-88: a fresh tabwriter, decode one element and
\* enter display (var total int64, first event)
DecodeBatch ==
  /\ pc = "decode"
  /\ tw' = <<>>
  /\ IF DecodeOk(tokenState, Peek(input, pos))
     THEN /\ objs' = Decoded(Peek(input, pos))
          /\ pos' = pos + 1
          /\ tokenState' = TokenValueEnd(tokenState)
          /\ pc' = "display"
          /\ idx' = 1
          /\ total' = 0
          /\ err' = err
          /\ calls' = [calls EXCEPT !.decode = @ + 1, !.display = @ + 1]
     ELSE /\ Return(DecodeError)
          /\ calls' = [calls EXCEPT !.decode = @ + 1]
          /\ UNCHANGED <<objs, pos, tokenState, idx, total>>
  /\ UNCHANGED <<input, fw, sink, start, now>>
  /\ UNCHANGED run

\* variant: the writers are flushed on the error path too
DisplayEventFlushOnError ==
  /\ pc = "display"
  /\ idx <= Len(objs)
  /\ IF HasError(objs[idx])
     THEN /\ Return(TaskError(objs[idx]))
          /\ sink' = Append(sink, [erase |-> fw.lines, text |-> tw])
          /\ UNCHANGED <<idx, total, tw>>
     ELSE /\ total' = AddInt64(total, objs[idx].Offset)
          /\ tw' = Append(tw, EventLine(objs[idx]))
          /\ idx' = idx + 1
          /\ UNCHANGED <<pc, err, sink>>
  /\ UNCHANGED <<input, pos, tokenState, objs, fw, start, now, calls>>
  /\ UNCHANGED run

\* variant: only the offsets of transfers in progress are added up
DisplayEventCountTransfersOnly ==
  /\ pc = "display"
  /\ idx <= Len(objs)
  /\ IF HasError(objs[idx])
     THEN /\ Return(TaskError(objs[idx]))
          /\ UNCHANGED <<idx, total, tw>>
     ELSE /\ total' = IF objs[idx].Status \in {"downloading", "uploading"}
                      THEN AddInt64(total, objs[idx].Offset) ELSE total
          /\ tw' = Append(tw, EventLine(objs[idx]))
          /\ idx' = idx + 1
          /\ UNCHANGED <<pc, err>>
  /\ UNCHANGED <<input, pos, tokenState, objs, fw, sink, start, now, calls>>
  /\ UNCHANGED run

\* variant: display writes to the terminal directly, not to the tabwriter
DisplayEventUnbuffered ==
  /\ pc = "display"
  /\ idx <= Len(objs)
  /\ IF HasError(objs[idx])
     THEN /\ Return(TaskError(objs[idx]))
          /\ UNCHANGED <<idx, total, tw, sink>>
     ELSE /\ total' = AddInt64(total, objs[idx].Offset)
          /\ tw' = Append(tw, EventLine(objs[idx]))
          /\ sink' = Append(sink, [erase |-> 0, text |-> <<EventLine(objs[idx])>>])
          /\ idx' = idx + 1
          /\ UNCHANGED <<pc, err>>
  /\ UNCHANGED <<input, pos, tokenState, objs, fw, start, now, calls>>
  /\ UNCHANGED run

\* variant: the offset is added before the errorMessage is looked at
DisplayEventAccumulateFirst ==
  /\ pc = "display"
  /\ idx <= Len(objs)
  /\ total' = AddInt64(total, objs[idx].Offset)
  /\ IF HasError(objs[idx])
     THEN /\ Return(TaskError(objs[idx]))
          /\ UNCHANGED <<idx, tw>>
     ELSE /\ tw' = Append(tw, EventLine(objs[idx]))
          /\ idx' = idx + 1
          /\ UNCHANGED <<pc, err>>
  /\ UNCHANGED <<input, pos, tokenState, objs, fw, sink, start, now, calls>>
  /\ UNCHANGED run

\* variant: an event replaces the line already written for its reference
DisplayEventMergeByRef ==
  /\ pc = "display"
  /\ idx <= Len(objs)
  /\ IF HasError(objs[idx])
     THEN /\ Return(TaskError(objs[idx]))
          /\ UNCHANGED <<idx, total, tw>>
     ELSE /\ total' = AddInt64(total, objs[idx].Offset)
          /\ tw' = IF \E j \in 1..Len(tw) : tw[j].ref = objs[idx].Ref
                   THEN [j \in 1..Len(tw) |->
                           IF tw[j].ref = objs[idx].Ref
                           THEN EventLine(objs[idx]) ELSE tw[j]]
                   ELSE Append(tw, EventLine(objs[idx]))
          /\ idx' = idx + 1
          /\ UNCHANGED <<pc, err>>
  /\ UNCHANGED <<input, pos, tokenState, objs, fw, sink, start, now, calls>>
  /\ UNCHANGED run

\* display, lines 104-135: one iteration of the loop over the events
DisplayEvent ==
  /\ pc = "display"
  /\ idx <= Len(objs)
  /\ IF HasError(objs[idx])
     THEN /\ Return(TaskError(objs[idx]))
          /\ UNCHANGED <<idx, total, tw>>
     ELSE /\ total' = AddInt64(total, objs[idx].Offset)
          /\ tw' = Append(tw, EventLine(objs[idx]))
          /\ idx' = idx + 1
          /\ UNCHANGED <<pc, err>>
  /\ UNCHANGED <<input, pos, tokenState, objs, fw, sink, start, now, calls>>
  /\ UNCHANGED run

\* display, lines 137-141: the summary line; the clock is read twice
DisplaySummary ==
  /\ pc = "display"
  /\ idx > Len(objs)
  /\ \E t1 \in now..MaxClock : \E t2 \in t1..MaxClock :
       \E rate \in BytesPerSecond(total, t2 - start) :
         /\ tw' = Append(tw, SummaryLine(t1 - start, total, rate))
         /\ now' = t2
  /\ pc' = "flush"
  /\ UNCHANGED <<input, pos, tokenState, objs, idx, total, fw, sink, err,
                 start, calls>>
  /\ UNCHANGED run

\* progress.Writer.Flush: nothing when the buffer is empty; otherwise
\* erase the lines of the previous flush and write the buffer
WriterFlush(w, out) ==
  IF w.buf = <<>> THEN [w |-> w, out |-> out]
  ELSE [w |-> [buf |-> <<>>, lines |-> Len(w.buf)],
        out |-> Append(out, [erase |-> w.lines, text |-> w.buf])]

\* variant: only the tabwriter is flushed, the progress writer is not
FlushBatchTabwriterOnly ==
  /\ pc = "flush"
  /\ fw' = [fw EXCEPT !.buf = @ \o tw]
  /\ tw' = <<>>
  /\ calls' = [calls EXCEPT !.flush = @ + 1]
  /\ pc' = "more"
  /\ UNCHANGED <<input, pos, tokenState, objs, idx, total, sink, err, start, now>>
  /\ UNCHANGED run

\* renderOutput, lines 92-93: tw.Flush() hands the aligned lines to the
\* progress writer, fw.Flush() writes them to the terminal
FlushBatch ==
  /\ pc = "flush"
  /\ LET r == WriterFlush([fw EXCEPT !.buf = @ \o tw], sink)
     IN /\ fw' = r.w
        /\ sink' = r.out
  /\ tw' = <<>>
  /\ calls' = [calls EXCEPT !.flush = @ + 1]
  /\ pc' = "more"
  /\ UNCHANGED <<input, pos, tokenState, objs, idx, total, err, start, now>>
  /\ UNCHANGED run

\* variant: the error of the closing dec.Token() is dropped
CloseTokenIgnoreError ==
  /\ pc = "close"
  /\ calls' = [calls EXCEPT !.token = @ + 1]
  /\ pc' = "done"
  /\ err' = err
  /\ IF TokenOk(tokenState, Peek(input, pos))
     THEN /\ pos' = pos + 1
          /\ tokenState' = TokenNext(tokenState, Peek(input, pos))
     ELSE UNCHANGED <<pos, tokenState>>
  /\ UNCHANGED <<input, objs, idx, total, tw, fw, sink, start, now>>
  /\ UNCHANGED run

\* renderOutput, lines 96-99: read the closing token
CloseToken ==
  /\ pc = "close"
  /\ calls' = [calls EXCEPT !.token = @ + 1]
  /\ IF TokenOk(tokenState, Peek(input, pos))
     THEN /\ pos' = pos + 1
          /\ tokenState' = TokenNext(tokenState, Peek(input, pos))
          /\ pc' = "done"
          /\ err' = err
     ELSE /\ Return(ClosingError)
          /\ UNCHANGED <<pos, tokenState>>
  /\ UNCHANGED <<input, objs, idx, total, tw, fw, sink, start, now>>
  /\ UNCHANGED run

Next ==
  \/ RunPull
  \/ RunPullReturn
  \/ OpenToken
  \/ LoopTest
  \/ DecodeBatch
  \/ DisplayEvent
  \/ DisplaySummary
  \/ FlushBatch
  \/ CloseToken

Spec == Init /\ [][Next]_vars

\* the program is a single sequential thread that is never suspended
\* for ever: a step that can be taken is taken
FairSpec == Spec /\ WF_vars(Next)

TypeOK ==
  /\ pc \in {"start", "more", "decode", "display", "flush", "close", "done"}
  /\ tokenState \in {"top", "arrayStart", "arrayComma", "objectStart"}
  /\ pos \in 1..(Len(input) + 1)
  /\ err.kind \in {"nil", "opening", "decode", "task", "closing"}
  /\ run.pc \in {"entry", "render", "exit"}
  /\ run.closes \in 0..1
  /\ total \in -8..7

\* ------------------------------------------------- notions of the claims
Done == pc = "done"
Success == pc = "done" /\ err = NoErr
Failed == pc = "done" /\ err # NoErr

\* index of the first event of b that carries an errorMessage, 0 if none
FirstErr(b) ==
  IF \E i \in 1..Len(b) : b[i].ErrorMessage # <<>>
  THEN CHOOSE i \in 1..Len(b) :
         /\ b[i].ErrorMessage # <<>>
         /\ \A j \in 1..(i - 1) : b[j].ErrorMessage = <<>>
  ELSE 0

\* the i-th top-level element of the stream, as a batch
ElementBatch(i) ==
  IF input[i + 1].kind = "batch" THEN input[i + 1].events ELSE <<>>

RECURSIVE SumOffsets(_)
SumOffsets(b) == IF b = <<>> THEN 0 ELSE b[1].Offset + SumOffsets(Tail(b))

\* the sum of the offsets of b as an int64 (units of 2^60 bytes)
SumInt64(b) == ((SumOffsets(b) + 8) % 16) - 8

\* text is one rendering pass of batch b: a line per event in the batch's
\* order, then the summary line
IsPassOf(text, b) ==
  /\ Len(text) = Len(b) + 1
  /\ \A j \in 1..Len(b) :
       /\ text[j].kind = "event"
       /\ text[j].ref = b[j].Ref
       /\ text[j].status = b[j].Status
  /\ text[Len(text)].kind = "summary"
  /\ text[Len(text)].total = SumInt64(b)

\* the closing delimiter that matches an opening delimiter
Closer(k) == IF k = "[" THEN "]" ELSE IF k = "{" THEN "}" ELSE "none"

\* ---------------------------------------------------------------- C1
\* C1: a stream whose first token is not '[' ends in a framing error,
\* never in success, and no batch is decoded, rendered or flushed for it.
C1_FramingErrorOnBadOpening ==
  (Len(input) >= 1 /\ input[1] # LB) =>
     /\ calls.display = 0
     /\ calls.flush = 0
     /\ sink = <<>>
     /\ (pc = "done" => err.kind \in {"opening", "closing"})

\* ---------------------------------------------------------------- C2
\* C2: in a batch with an errorMessage, display stops at the first such
\* event: lines exist only for the events before it, there is no summary
\* line, the batch is never flushed and renderOutput returns the task error.
C2_TaskErrorAborts ==
  LET k == FirstErr(objs) IN
  k > 0 =>
     /\ pc \in {"display", "done"}
     /\ Len(tw) < k
     /\ \A j \in 1..Len(tw) : tw[j].kind = "event" /\ tw[j].ref = objs[j].Ref
     /\ calls.flush = calls.display - 1
     /\ Len(sink) = calls.display - 1
     /\ fw.buf = <<>>
     /\ (pc = "done" => err.kind = "task" /\ idx = k)

C2_Witness ==
  /\ pc = "done"
  /\ err.kind = "task"
  /\ FirstErr(objs) = 2
  /\ Len(tw) = 1
  /\ Len(sink) = 1

\* ---------------------------------------------------------------- C3
\* C3: the message of the task error is exactly the errorMessage of the
\* event, character for character.
C3_MessageVerbatim ==
  err.kind = "task" => err.msg = objs[idx].ErrorMessage

\* ---------------------------------------------------------------- C4
\* C4: the first error is the one returned: it is returned at once and
\* names the step that failed, and after it no token is read, no batch is
\* decoded or rendered, nothing is written or flushed.
C4_FirstErrorIsTerminal ==
  [][/\ (err # NoErr => UNCHANGED <<err, pos, tokenState, calls, sink, fw, tw,
                                     objs, idx, total, pc>>)
     /\ (err' # NoErr => pc' = "done")
     /\ (err = NoErr /\ err' # NoErr =>
           err'.kind = CASE pc = "start" -> "opening"
                         [] pc = "decode" -> "decode"
                         [] pc = "display" -> "task"
                         [] pc = "close" -> "closing"
                         [] OTHER -> "none")]_vars

C4_Witness ==
  /\ err.kind = "task"
  /\ pos <= Len(input)
  /\ input[pos].kind = "batch"
  /\ FirstErr(input[pos].events) = 0

\* ---------------------------------------------------------------- C5
\* C5: the i-th pass on the sink is the rendering of the i-th batch of the
\* stream; passes are neither repeated, skipped, reordered nor merged, and
\* a successful run over n batches leaves n passes.
C5_PassesInArrivalOrder ==
  /\ Len(sink) = calls.flush
  /\ calls.display \in {calls.flush, calls.flush + 1}
  /\ \A i \in 1..Len(sink) : IsPassOf(sink[i].text, ElementBatch(i))
  /\ (Success => Len(sink) = pos - 3)

C5_Witness ==
  /\ Success
  /\ Len(sink) = 2
  /\ ElementBatch(1) # ElementBatch(2)
  /\ Len(ElementBatch(1)) = 2

\* ---------------------------------------------------------------- C6
\* C6: the sink changes only by the flush that follows a batch display
\* rendered without error, by exactly one appended pass; earlier passes are
\* never changed, so a run that fails at batch k leaves k-1 passes.
C6_FlushOncePerRenderedBatch ==
  [][/\ (sink' # sink \/ calls'.flush # calls.flush =>
           /\ pc = "flush"
           /\ calls'.flush = calls.flush + 1
           /\ Len(sink') = Len(sink) + 1
           /\ SubSeq(sink', 1, Len(sink)) = sink
           /\ sink'[Len(sink')].text = tw
           /\ tw[Len(tw)].kind = "summary")
     /\ (pc' \in {"more", "decode", "close"} => Len(sink') = calls'.display)
     /\ (pc' = "done" =>
           Len(sink') = IF err'.kind = "task" THEN calls'.display - 1
                        ELSE calls'.display)
     /\ (pc' = "done" /\ err'.kind = "decode" => Len(sink') = calls'.decode - 1)]_vars

C6_Witness ==
  /\ Failed
  /\ err.kind = "task"
  /\ calls.display = 2
  /\ Len(sink) = 1
  /\ tw # <<>>

C8_ClosingDelimiterRequired ==
  [][/\ (pc = "close" =>
          IF Peek(input, pos).kind = Closer(input[1].kind)
          THEN pc' = "done" /\ err' = NoErr /\ pos' = pos + 1
          ELSE pc' = "done" /\ err'.kind = "closing" /\ pos' = pos)
     /\ (pc # "done" /\ pc' = "done" /\ err' = NoErr =>
          /\ pc = "close"
          /\ input[1].kind \in {"[", "{"}
          /\ Peek(input, pos).kind = Closer(input[1].kind))]_vars

C8_Witness ==
  /\ err.kind = "closing"
  /\ input[1] = LB
  /\ pos = Len(input) + 1
  /\ Len(sink) >= 1
  /\ calls.flush = calls.decode

\* ---------------------------------------------------------------- C9
\* C9: for the empty outer array display is never called, no line is
\* written, nothing is flushed and renderOutput returns success.
C9_EmptyStream ==
  (Len(input) >= 2 /\ input[1] = LB /\ input[2] = RB) =>
     /\ calls.decode = 0
     /\ calls.display = 0
     /\ calls.flush = 0
     /\ tw = <<>>
     /\ fw.buf = <<>>
     /\ sink = <<>>
     /\ err = NoErr
     /\ pc \in {"start", "more", "close", "done"}

C9_Witness ==
  /\ input = <<LB, RB>>
  /\ Success
  /\ pos = 3

\* ---------------------------------------------------------------- C10
\* C10: for a batch of N events without errorMessage, display writes N
\* event lines and then one summary line; the i-th line shows reference and
\* status of the i-th event, also when references repeat.
C10_OneLinePerEvent ==
  /\ (pc = "display" /\ FirstErr(objs) = 0 =>
        /\ Len(tw) = idx - 1
        /\ \A i \in 1..Len(tw) :
             /\ tw[i].kind = "event"
             /\ tw[i].ref = objs[i].Ref
             /\ tw[i].status = objs[i].Status)
  /\ (pc = "flush" =>
        /\ FirstErr(objs) = 0
        /\ Len(tw) = Len(objs) + 1
        /\ \A i \in 1..Len(objs) :
             /\ tw[i].kind = "event"
             /\ tw[i].ref = objs[i].Ref
             /\ tw[i].status = objs[i].Status
        /\ tw[Len(tw)].kind = "summary")

C10_Witness ==
  /\ pc = "flush"
  /\ Len(objs) = 2
  /\ objs[1].Ref = objs[2].Ref
  /\ objs[1].Status # objs[2].Status
  /\ Len(tw) = 3

\* ---------------------------------------------------------------- C11
\* C11: bar ratio and size column of an event line follow from the status,
\* offset and total alone: offset/total (0 without a total) and a size
\* column for downloading and uploading, ratio 0 and no size column for
\* resolving and waiting, ratio 1 and no size column for any other status.
C11_RatioAndSizeByStatus ==
  \A i \in 1..Len(tw) :
    tw[i].kind = "event" =>
      LET e == objs[i]
          l == tw[i]
      IN CASE e.Status \in {"downloading", "uploading"} ->
                /\ l.size = <<e.Offset, e.Total>>
                /\ (e.Total > 0 => /\ l.bar[2] > 0
                                   /\ l.bar[1] * e.Total = e.Offset * l.bar[2])
                /\ (e.Total = 0 => l.bar[1] = 0 /\ l.bar[2] > 0)
           [] e.Status \in {"resolving", "waiting"} ->
                l.bar[1] = 0 /\ l.bar[2] > 0 /\ l.size = <<>>
           [] OTHER ->
                l.bar[1] = l.bar[2] /\ l.bar[2] > 0 /\ l.size = <<>>

C11_Witness ==
  /\ pc = "flush"
  /\ Len(objs) = 1
  /\ objs[1].Status = "downloading"
  /\ objs[1].Offset = 1
  /\ objs[1].Total = 2
  /\ 2 * tw[1].bar[1] = tw[1].bar[2]
  /\ tw[1].size = <<1, 2>>

C13_TotalIsSum ==
  pc = "flush" => tw[Len(tw)].total = SumOffsets(objs)

\* C13 amended: the accumulator starts at 0 for every pass and adds the
\* offset of every event of the batch, whatever its status, in int64
\* arithmetic: the total of the summary line is the sum of the batch's
\* offsets modulo 2^64, and the exact sum whenever that fits in an int64.
C13_TotalIsInt64Sum ==
  /\ (pc = "display" /\ idx <= Len(objs) + 1 =>
        total = SumInt64(SubSeq(objs, 1, idx - 1)))
  /\ (pc = "flush" =>
        /\ tw[Len(tw)].total = SumInt64(objs)
        /\ (SumOffsets(objs) \in -8..7 => tw[Len(tw)].total = SumOffsets(objs)))

C13_Witness ==
  /\ pc = "flush"
  /\ calls.display = 2
  /\ sink[1].text[Len(sink[1].text)].total = 3
  /\ Len(objs) = 2
  /\ objs[1].Status = "done"
  /\ objs[2].Status = "downloading"
  /\ tw[Len(tw)].total = 4

\* ---------------------------------------------------------------- C14
\* C14: when no time has elapsed since start as the rate of the summary
\* line is computed, the rate shown is 0, whatever the total.
C14_ZeroElapsedZeroRate ==
  \A i \in 1..Len(tw) :
    (tw[i].kind = "summary" /\ tw[i].rate.den = 0) => tw[i].rate.kind = "Zero"

\* ---------------------------------------------------------------- C15
\* C15: the start time is taken once, with the step that reads the first
\* token, and never changes afterwards; the elapsed values of the summary
\* lines on the sink never decrease from one batch to the next.
PassElapsed(p) == p.text[Len(p.text)].elapsed

C15_ElapsedMonotone ==
  [][/\ (pc # "start" => start' = start)
     /\ (pc = "start" /\ pc' # "start" => start' = now /\ calls.token = 0 /\ pos = 1)
     /\ \A i, j \in 1..Len(sink') :
          i < j => PassElapsed(sink'[i]) <= PassElapsed(sink'[j])]_vars

C15_Witness ==
  /\ Len(sink) = 2
  /\ PassElapsed(sink[1]) = 1
  /\ PassElapsed(sink[2]) = 2

\* ---------------------------------------------------------------- C16
\* C16: the event lines and the total of a pass depend on its batch only:
\* equal batches at different places of the stream give equal event lines
\* and totals, and every event line of a pass is for a reference of its
\* batch.
PassEvents(p) == SubSeq(p.text, 1, Len(p.text) - 1)
PassTotal(p) == p.text[Len(p.text)].total

C17_BodyClosedOnce ==
  [][/\ (run'.closes # run.closes =>
           /\ run.pc = "render"
           /\ pc = "done"
           /\ run.closes = 0
           /\ run'.closes = 1
           /\ run'.body = "closed"
           /\ run'.ret = err)
     /\ (run'.pc = "render" => run'.body = "open" /\ run'.closes = 0)
     /\ (run'.pc = "exit" /\ run.body = "open" =>
           run'.body = "closed" /\ run'.closes = 1)
     /\ (run.body = "closed" => run'.body = "closed")]_vars

C17_Witness ==
  /\ run.pc = "exit"
  /\ run.body = "closed"
  /\ run.closes = 1
  /\ run.ret.kind = "decode"

\* ---------------------------------------------------------------- C18
\* C18: what has reached the sink is always a sequence of complete passes
\* of the first batches of the stream: event lines closed by one summary
\* line.  The lines of a batch that fails with a task error stay in the
\* tabwriter and are never written.
C18_SinkHoldsCompletePasses ==
  /\ Len(sink) <= calls.display
  /\ fw.buf = <<>>
  /\ \A i \in 1..Len(sink) :
       LET t == sink[i].text
       IN /\ Len(t) = Len(ElementBatch(i)) + 1
          /\ t[Len(t)].kind = "summary"
          /\ \A k \in 1..(Len(t) - 1) : t[k].kind = "event"
  /\ (err.kind = "task" =>
        /\ Len(sink) = calls.display - 1
        /\ Len(tw) = idx - 1
        /\ \A k \in 1..Len(tw) : tw[k].kind = "event")

C18_Witness ==
  /\ run.pc = "exit"
  /\ err.kind = "task"
  /\ idx = 2
  /\ Len(tw) = 1
  /\ Len(sink) = 1
  /\ Len(sink[1].text) = 3

\* ---------------------------------------------------------------- C19
\* C19: a task error is raised by the first event of the stream that has
\* an errorMessage, whatever its status, offset and total; its offset is
\* not added to the total and no line is written for it.
C19_ErrorCheckFirst ==
  err.kind = "task" =>
    LET k == FirstErr(objs) IN
    /\ k > 0
    /\ idx = k
    /\ objs = ElementBatch(calls.display)
    /\ \A i \in 1..(calls.display - 1) : FirstErr(ElementBatch(i)) = 0
    /\ total = SumInt64(SubSeq(objs, 1, k - 1))
    /\ Len(tw) = k - 1
    /\ ((\A c \in 1..Len(objs[k].ErrorMessage) : objs[k].ErrorMessage[c] # "%")
          => err.msg = objs[k].ErrorMessage)

C19_Witness ==
  /\ err.kind = "task"
  /\ Len(objs) = 2
  /\ idx = 1
  /\ objs[2].ErrorMessage # <<>>
  /\ objs[2].ErrorMessage # objs[1].ErrorMessage
  /\ err.msg = objs[1].ErrorMessage

\* ---------------------------------------------------------------- C20
\* C20: renderOutput, once called, returns; its loop runs at most once
\* per element of the stream, and every iteration consumes one element or
\* returns the decode error.
C20_Terminates ==
  /\ (run.pc = "render") ~> (pc = "done")
  /\ [](/\ calls.decode <= Len(input)
        /\ calls.display = calls.decode - (IF err.kind = "decode" THEN 1 ELSE 0)
        /\ calls.display <= pos - 1
        /\ (err.kind = "decode" => pc = "done"))

C20_Witness ==
  /\ run.pc = "exit"
  /\ pc = "done"
  /\ err = NoErr
  /\ calls.decode = 2
  /\ pos = 5

====
